---- MODULE Spec2Model ----
(***************************************************************************)
(* State-machine model of the response viewer (src/src/main.rs): the       *)
(* Viewer application object, the three files it works on, and the         *)
(* handlers the GUI runtime calls on it (new, view, update).                *)
(*                                                                         *)
(* Strings that are only compared for equality are TLA+ strings; theme     *)
(* names, which the program sorts, are sequences of character codes.       *)
(* An Option<bool> is the set of its values: {} is None, {b} is Some(b).   *)
(* A JSON file is its sequence of tokens; an entries array is              *)
(*   <<"[", object, ..., object, "]">>.                                    *)
(* idx is zero-based as in the program; data[idx + 1] is the current row.  *)
(***************************************************************************)
EXTENDS Integers, Sequences, FiniteSets, TLC

VARIABLES
    pc,         \* "start" | "loaded" (new returned) | "running" (a view is on screen) | "dead"
    err,        \* the panic that ended the process, "" while it lives
    argc,       \* std::env::args().len()
    inputFile,  \* the entries file   [exists, toks]
    codeFile,   \* the vocabulary file [exists, rows]
    outFile,    \* the output file    [exists, toks]
    idx,        \* Viewer.idx
    data,       \* Viewer.data
    codes,      \* Viewer.codes
    themes,     \* Viewer.themes
    ui,         \* the widgets built by the last view(): what the user can click
    lastMsg,    \* the handler call that produced this state
    mutations,  \* number of mutating messages update() has handled
    saves,      \* number of calls of save()
    savesOk,    \* number of calls of save() that returned Ok
    lastGood,   \* the output file as the last successful save left it
    touched,    \* per entry, the fields a mutating message has written
    pair        \* the previous message when it began a two-message round trip

vars == << pc, err, argc, inputFile, codeFile, outFile, idx, data, codes, themes,
           ui, lastMsg, mutations, saves, savesOk, lastGood, touched, pair >>

\* ------------------------------------------------------------------ bounds

\* the entries files have 0 .. MaxEntries entries
MaxEntries == 2
\* update() handles at most this many mutating messages in one run (the
\* counters mutations, saves and savesOk are otherwise unbounded)
MaxMutations == 2

\* ------------------------------------------------------------ small helpers

Min(a, b) == IF a < b THEN a ELSE b

Range(s) == { s[i] : i \in DOMAIN s }

\* All orders in which the elements of a finite set can be enumerated.
Perms(S) ==
    { p \in [1..Cardinality(S) -> S] : \A i, j \in 1..Cardinality(S) : p[i] = p[j] => i = j }

\* ------------------------------------------------------ Option<bool> values

None == {}
Some(b) == {b}

\* Option::or
OptOr(m, other) == IF m = None THEN other ELSE m

\* Option::map(|b| !b)
OptMapNot(m) == { ~b : b \in m }

\* Option::get_or_insert: the value left in the option
GetOrInsert(m, b) == IF m = None THEN Some(b) ELSE m

\* The bool inside a Some
Unwrap(m) == CHOOSE b \in m : TRUE

\* ------------------------------------------------------------ program constants

\* assert_eq!(args.len(), 4): the program name and three paths
ExpectedArgs == 4

\* view() lays the theme columns out in rows of five
ThemesPerRow == 5

\* --------------------------------------------------------- JSON (serde_json)

TokOpen  == [tok |-> "["]
TokClose == [tok |-> "]"]

\* a serializer that writes an absent matches as false
JsonOfMatchesNoneAsFalse(m) ==
    IF m = None THEN "false" ELSE IF Unwrap(m) THEN "true" ELSE "false"

\* Serialize for Option<bool>: None is written as null
JsonOfMatches(m) ==
    IF m = None THEN "null" ELSE IF Unwrap(m) THEN "true" ELSE "false"

\* Deserialize for Option<bool>: a missing field and null both give None
MatchesOfJson(j) ==
    IF j \in {"omitted", "null"} THEN None
    ELSE IF j = "true" THEN Some(TRUE) ELSE Some(FALSE)

\* One Entry as a JSON object, its code set written in the order `order`
JsonOfEntry(e, order) ==
    [ tok |-> "obj", index |-> e.index, lab |-> e.lab, group |-> e.group,
      response |-> e.response, ratings |-> e.ratings,
      matches |-> JsonOfMatches(e.matches), codes |-> order ]

\* One JSON object as an Entry; a HashSet is built from the array, so
\* order and repetitions in the array are lost
EntryOfJson(o) ==
    [ index |-> o.index, lab |-> o.lab, group |-> o.group,
      response |-> o.response, ratings |-> o.ratings,
      matches |-> MatchesOfJson(o.matches), codes |-> Range(o.codes) ]

\* The objects a HashSet's unspecified iteration order allows for one Entry
EntryJsons(e) == { JsonOfEntry(e, p) : p \in Perms(e.codes) }

RECURSIVE ObjectSeqs(_)
ObjectSeqs(d) ==
    IF d = << >> THEN { << >> }
    ELSE { <<o>> \o rest : o \in EntryJsons(Head(d)), rest \in ObjectSeqs(Tail(d)) }

\* serde_json::to_writer_pretty(file, &self.data): the texts it can write
Serialize(d) == { <<TokOpen>> \o objs \o <<TokClose>> : objs \in ObjectSeqs(d) }

\* What a write that fails part-way leaves behind: a proper prefix of the
\* text (cut between two tokens; a cut inside an object parses no better)
PartialWrites(d) ==
    UNION { { SubSeq(s, 1, k) : k \in 0..(Len(s) - 1) } : s \in Serialize(d) }

\* serde_json::from_reader::<Vec<Entry>> succeeds
ParseOk(toks) ==
    /\ Len(toks) >= 2
    /\ toks[1].tok = "["
    /\ toks[Len(toks)].tok = "]"
    /\ \A i \in 2..(Len(toks) - 1) : toks[i].tok = "obj"

\* ... and its result
Parse(toks) == [ i \in 1..(Len(toks) - 2) |-> EntryOfJson(toks[i + 1]) ]

\* ------------------------------------------------------------- CSV (csv crate)

\* A row decodes into a Code when it has as many cells as the header and
\* the header names the three columns
RowOk(header, row) ==
    /\ Len(row) = Len(header)
    /\ {"theme", "tag", "code"} \subseteq Range(header)

Col(header, name) == CHOOSE i \in DOMAIN header : header[i] = name

CodeOfRow(header, row) ==
    [ theme |-> row[Col(header, "theme")],
      tag   |-> row[Col(header, "tag")],
      code  |-> row[Col(header, "code")] ]

\* a load that stops at the first row that does not decode
RECURSIVE DecodeRowsUntilError(_, _)
DecodeRowsUntilError(header, rows) ==
    IF rows = << >> THEN << >>
    ELSE IF Len(Head(rows)) = Len(header)
         THEN <<[ theme |-> Head(rows)[1], tag |-> Head(rows)[2], code |-> Head(rows)[3] ]>>
                  \o DecodeRowsUntilError(header, Tail(rows))
         ELSE << >>

\* .deserialize().filter_map(|r| r.ok()).collect()
RECURSIVE DecodeRows(_, _)
DecodeRows(header, rows) ==
    IF rows = << >> THEN << >>
    ELSE IF RowOk(header, Head(rows))
         THEN <<CodeOfRow(header, Head(rows))>> \o DecodeRows(header, Tail(rows))
         ELSE DecodeRows(header, Tail(rows))

\* ------------------------------------------------------------------- themes

\* String order (Ord for String): lexicographic on the character codes
RECURSIVE StrLess(_, _)
StrLess(a, b) ==
    IF b = << >> THEN FALSE
    ELSE IF a = << >> THEN TRUE
    ELSE IF Head(a) < Head(b) THEN TRUE
    ELSE IF Head(a) > Head(b) THEN FALSE
    ELSE StrLess(Tail(a), Tail(b))

RECURSIVE InsertSorted(_, _)
InsertSorted(x, s) ==
    IF s = << >> THEN <<x>>
    ELSE IF StrLess(x, Head(s)) THEN <<x>> \o s
    ELSE <<Head(s)>> \o InsertSorted(x, Tail(s))

\* the themes left in file order
SortSkipped(s) == s

\* Vec::sort
RECURSIVE Sort(_)
Sort(s) == IF s = << >> THEN << >> ELSE InsertSorted(Head(s), Sort(Tail(s)))

\* Vec::dedup: drops an element equal to the one before it
RECURSIVE Dedup(_)
Dedup(s) ==
    IF Len(s) <= 1 THEN s
    ELSE IF s[1] = s[2] THEN Dedup(Tail(s))
    ELSE <<s[1]>> \o Dedup(Tail(s))

\* codes.iter().map(|c| c.theme.clone()).collect(); sort(); dedup()
ThemesOf(cs) == Dedup(Sort([ i \in DOMAIN cs |-> cs[i].theme ]))

\* ------------------------------------------------------------- the widgets

\* The themes whose column view() builds: rows 0 .. len/5 - 1 of five themes
ShownThemes(ts) ==
    UNION { { ts[i + 1] : i \in (row * ThemesPerRow) ..
                               (Min((row + 1) * ThemesPerRow, Len(ts)) - 1) }
            : row \in 0..((Len(ts) \div ThemesPerRow) - 1) }

\* The code checkboxes of view() with the label sent in place of the tag
BoxesLabelAsTag(ts, cs, have) ==
    { [ theme |-> cs[k].theme, tag |-> cs[k].code, label |-> cs[k].code,
        checked |-> (cs[k].tag \in have) ]
      : k \in { k \in DOMAIN cs : cs[k].theme \in ShownThemes(ts) } }

\* The code checkboxes view() builds for an entry with code set `have`
Boxes(ts, cs, have) ==
    { [ theme |-> cs[k].theme, tag |-> cs[k].tag, label |-> cs[k].code,
        checked |-> (cs[k].tag \in have) ]
      : k \in { k \in DOMAIN cs : cs[k].theme \in ShownThemes(ts) } }

NoUi == [ matchesChecked |-> FALSE, boxes |-> {} ]

\* ------------------------------------------------------------ the file system

NoFile == [ exists |-> FALSE, toks |-> << >> ]

\* The i-th object of an entries file (i = 1, 2, ...)
InputObject(i) ==
    [ tok |-> "obj", index |-> 100 + i,
      lab |-> IF i % 2 = 1 THEN "lab1" ELSE "lab2", group |-> "grp",
      response |-> "text", ratings |-> IF i % 2 = 1 THEN <<"r1", "r2">> ELSE << >>,
      matches |-> CASE i % 4 = 1 -> "omitted" [] i % 4 = 2 -> "null"
                    [] i % 4 = 3 -> "false"   [] OTHER -> "true",
      codes |-> CASE i % 3 = 1 -> << >> [] i % 3 = 2 -> <<"t1", "t1">>
                  [] OTHER -> <<"t2">> ]

EntriesFile(n) ==
    [ exists |-> TRUE,
      toks |-> <<TokOpen>> \o [ i \in 1..n |-> InputObject(i) ] \o <<TokClose>> ]

\* cut off after the first object
BrokenEntriesFile == [ exists |-> TRUE, toks |-> <<TokOpen, InputObject(1)>> ]

\* one entry, already marked, carrying a tag that no vocabulary file below has
ForeignEntriesFile ==
    [ exists |-> TRUE,
      toks |-> << TokOpen,
                  [ InputObject(1) EXCEPT !.codes = <<"t9">>, !.matches = "true" ],
                  TokClose >> ]

InputFiles ==
    { NoFile, BrokenEntriesFile, ForeignEntriesFile }
        \cup { EntriesFile(n) : n \in 0..MaxEntries }

VocabHeader == <<"theme", "tag", "code">>

\* five themes, out of order, one repeated, one short row
VocabRows ==
    << << <<2>>,    "t1", "c1" >>,
       << <<1, 2>>, "t2", "c2" >>,
       << <<1, 2>>, "t1" >>,
       << <<1>>,    "t1", "c3" >>,
       << <<3>>,    "t2", "c4" >>,
       << <<1, 1>>, "t1", "c5" >>,
       << <<1, 2>>, "t1", "c6" >> >>

NoVocabFile == [ exists |-> FALSE, header |-> << >>, rows |-> << >> ]

VocabFile(rows) == [ exists |-> TRUE, header |-> VocabHeader, rows |-> rows ]

CodeFiles ==
    { NoVocabFile,
      VocabFile(VocabRows),                               \* five themes
      VocabFile(SubSeq(VocabRows, 1, 4)),                 \* three themes
      VocabFile(VocabRows \o << << <<4>>, "t3", "c7" >> >>) }  \* six themes

\* an output file left by an earlier run
OldOutFile == [ exists |-> TRUE, toks |-> <<TokOpen, InputObject(4), TokClose>> ]

OutFiles == { NoFile, OldOutFile }

\* ------------------------------------------------------------------ messages

\* A handler call: the Message (its tag and bool where it has them) and the
\* value of idx when the call began
Call(type, tag, flag, at) == [ type |-> type, tag |-> tag, flag |-> flag, at |-> at ]

Mutating == { "Matches", "ToggleMatches", "CodeToggle" }

NoPair == [ kind |-> "none", done |-> FALSE, tag |-> "", at |-> 0, before |-> {} ]

\* ------------------------------------------------------------- initial state

Init ==
    /\ pc = "start"
    /\ err = ""
    /\ argc \in { ExpectedArgs - 1, ExpectedArgs, ExpectedArgs + 1 }
    /\ inputFile \in InputFiles
    /\ codeFile \in CodeFiles
    /\ outFile \in OutFiles
    /\ idx = 0
    /\ data = << >>
    /\ codes = << >>
    /\ themes = << >>
    /\ ui = NoUi
    /\ lastMsg = Call("Init", "", FALSE, 0)
    /\ mutations = 0
    /\ saves = 0
    /\ savesOk = 0
    /\ lastGood = outFile
    /\ touched = << >>
    /\ pair = NoPair

\* ------------------------------------------------------------------- Viewer::new

\* new() without the check that the codes file opened
StartupErrorNoCodesCheck(n, inF, cF) ==
    IF n # ExpectedArgs THEN "assert_eq args.len"
    ELSE IF ~inF.exists THEN "Could not open file"
    ELSE IF ~ParseOk(inF.toks) THEN "Parsing json..."
    ELSE ""

\* The panic new() ends in, "" when it returns
StartupError(n, inF, cF) ==
    IF n # ExpectedArgs THEN "assert_eq args.len"
    ELSE IF ~inF.exists THEN "Could not open file"
    ELSE IF ~ParseOk(inF.toks) THEN "Parsing json..."
    ELSE IF ~cF.exists THEN "Could not open codes file"
    ELSE ""

New ==
    /\ pc = "start"
    /\ lastMsg' = Call("New", "", FALSE, 0)
    /\ IF StartupError(argc, inputFile, codeFile) # ""
       THEN /\ pc' = "dead"
            /\ err' = StartupError(argc, inputFile, codeFile)
            /\ UNCHANGED << idx, data, codes, themes, touched >>
       ELSE /\ pc' = "loaded"
            /\ err' = ""
            /\ idx' = 0
            /\ data' = Parse(inputFile.toks)
            /\ codes' = DecodeRows(codeFile.header, codeFile.rows)
            /\ themes' = ThemesOf(codes')
            /\ touched' = [ i \in DOMAIN data' |-> {} ]
    /\ UNCHANGED << argc, inputFile, codeFile, outFile, ui, mutations, saves,
                    savesOk, lastGood, pair >>

\* ------------------------------------------------------------------ Viewer::view

\* a view that takes the ratings out of the entry while it lists them
RenderedDrainingRatings(d, i) ==
    [ d EXCEPT ![i + 1].matches = GetOrInsert(@, FALSE), ![i + 1].ratings = << >> ]

\* *self.data[self.idx].matches.get_or_insert(false)
Rendered(d, i) == [ d EXCEPT ![i + 1].matches = GetOrInsert(@, FALSE) ]

View ==
    /\ pc \in { "loaded", "running" }
    /\ lastMsg' = Call("View", "", FALSE, idx)
    /\ IF idx >= Len(data)
       THEN /\ pc' = "dead"
            /\ err' = "index out of bounds"
            /\ UNCHANGED << data, ui >>
       ELSE /\ pc' = "running"
            /\ err' = ""
            /\ data' = Rendered(data, idx)
            /\ ui' = [ matchesChecked |-> Unwrap(data'[idx + 1].matches),
                       boxes |-> Boxes(themes, codes, data[idx + 1].codes) ]
    /\ UNCHANGED << argc, inputFile, codeFile, outFile, idx, codes, themes,
                    mutations, saves, savesOk, lastGood, touched, pair >>

\* ------------------------------------------------------------------ Viewer::save

\* save() whose error is dropped instead of unwrapped with expect
SaveIgnoringError(d) ==
    /\ saves' = saves + 1
    /\ \/ /\ outFile' = outFile
          /\ UNCHANGED << pc, err, savesOk, lastGood >>
       \/ /\ \E text \in Serialize(d) : outFile' = [ exists |-> TRUE, toks |-> text ]
          /\ lastGood' = outFile'
          /\ savesOk' = savesOk + 1
          /\ UNCHANGED << pc, err >>

\* save() that opens the file for appending instead of File::create
SaveAppending(d) ==
    /\ saves' = saves + 1
    /\ \E text \in Serialize(d) :
          outFile' = [ exists |-> TRUE, toks |-> outFile.toks \o text ]
    /\ lastGood' = outFile'
    /\ savesOk' = savesOk + 1
    /\ UNCHANGED << pc, err >>

\* File::create(&self.output_file_path)? then to_writer_pretty(file, &self.data)?
\* and, in update(), .expect("Saving file")
Save(d) ==
    /\ saves' = saves + 1
    /\ \/ \* File::create fails: nothing was touched
          /\ outFile' = outFile
          /\ pc' = "dead"
          /\ err' = "Saving file: create"
          /\ UNCHANGED << savesOk, lastGood >>
       \/ \* the file is created or truncated, then a write fails
          /\ \E part \in PartialWrites(d) : outFile' = [ exists |-> TRUE, toks |-> part ]
          /\ pc' = "dead"
          /\ err' = "Saving file: write"
          /\ UNCHANGED << savesOk, lastGood >>
       \/ /\ \E text \in Serialize(d) : outFile' = [ exists |-> TRUE, toks |-> text ]
          /\ lastGood' = outFile'
          /\ savesOk' = savesOk + 1
          /\ UNCHANGED << pc, err >>

\* ---------------------------------------------------------------- Viewer::update

\* idx + 1 without the clamp
NextIdxNoClamp(i, n) == i + 1

\* idx + 1 wrapping round to the first entry
NextIdxWrap(i, n) == (i + 1) % n

\* min(self.idx + 1, self.data.len() - 1)
NextIdx(i, n) == Min(i + 1, n - 1)

\* self.idx.saturating_sub(1)
PrevIdx(i) == IF i = 0 THEN 0 ELSE i - 1

\* self.curr_mut().matches = Some(matches)
SetMatches(m, b) == Some(b)

\* the toggle without .or(Some(false))
ToggledNoDefault(m) == OptMapNot(m)

\* self.curr_mut().matches.or(Some(false)).map(|b| !b)
Toggled(m) == OptMapNot(OptOr(m, Some(FALSE)))

\* CodeToggle that makes the tag the entry's only code
SetCodeReplacing(have, tag, state) == IF state THEN {tag} ELSE have \ {tag}

\* CodeToggle that inserts but never removes
SetCodeInsertOnly(have, tag, state) == IF state THEN have \cup {tag} ELSE have

\* curr.codes.insert(tag) / curr.codes.remove(&tag)
SetCode(have, tag, state) == IF state THEN have \cup {tag} ELSE have \ {tag}

Files == << argc, inputFile, codeFile >>

\* NextRow that also saves, as the mutating messages do
NextRowSaving ==
    /\ pc = "running"
    /\ idx' = NextIdx(idx, Len(data))
    /\ lastMsg' = Call("NextRow", "", FALSE, idx)
    /\ pair' = NoPair
    /\ Save(data)
    /\ UNCHANGED << Files, data, codes, themes, ui, mutations, touched >>

NextRow ==
    /\ pc = "running"
    /\ idx' = NextIdx(idx, Len(data))
    /\ lastMsg' = Call("NextRow", "", FALSE, idx)
    /\ pair' = NoPair
    /\ UNCHANGED << Files, pc, err, outFile, data, codes, themes, ui, mutations,
                    saves, savesOk, lastGood, touched >>

PrevRow ==
    /\ pc = "running"
    /\ idx' = PrevIdx(idx)
    /\ lastMsg' = Call("PrevRow", "", FALSE, idx)
    /\ pair' = NoPair
    /\ UNCHANGED << Files, pc, err, outFile, data, codes, themes, ui, mutations,
                    saves, savesOk, lastGood, touched >>

\* The Matches checkbox was clicked: it sends the opposite of what it shows
Matches ==
    /\ pc = "running"
    /\ mutations < MaxMutations
    /\ LET b == ~ui.matchesChecked IN
       /\ data' = [ data EXCEPT ![idx + 1].matches = SetMatches(@, b) ]
       /\ lastMsg' = Call("Matches", "", b, idx)
    /\ touched' = [ touched EXCEPT ![idx + 1] = @ \cup {"matches"} ]
    /\ mutations' = mutations + 1
    /\ pair' = NoPair
    /\ Save(data')
    /\ UNCHANGED << Files, idx, codes, themes, ui >>

\* A code checkbox was clicked: it sends its tag and the opposite of what it shows
CodeToggle ==
    /\ pc = "running"
    /\ mutations < MaxMutations
    /\ \E box \in ui.boxes :
          LET tag == box.tag
              state == ~box.checked
          IN /\ data' = [ data EXCEPT ![idx + 1].codes = SetCode(@, tag, state) ]
             /\ lastMsg' = Call("CodeToggle", tag, state, idx)
             /\ pair' = IF state
                        THEN [ kind |-> "code", done |-> FALSE, tag |-> tag,
                               at |-> idx, before |-> data[idx + 1] ]
                        ELSE IF pair.kind = "code" /\ ~pair.done
                                /\ pair.tag = tag /\ pair.at = idx
                        THEN [ pair EXCEPT !.done = TRUE ]
                        ELSE NoPair
    /\ touched' = [ touched EXCEPT ![idx + 1] = @ \cup {"codes"} ]
    /\ mutations' = mutations + 1
    /\ Save(data')
    /\ UNCHANGED << Files, idx, codes, themes, ui >>

\* Space was pressed
ToggleMatches ==
    /\ pc = "running"
    /\ mutations < MaxMutations
    /\ data' = [ data EXCEPT ![idx + 1].matches = Toggled(@) ]
    /\ lastMsg' = Call("ToggleMatches", "", FALSE, idx)
    /\ pair' = IF pair.kind = "matches" /\ ~pair.done /\ pair.at = idx
               THEN [ pair EXCEPT !.done = TRUE ]
               ELSE [ kind |-> "matches", done |-> FALSE, tag |-> "",
                      at |-> idx, before |-> data[idx + 1] ]
    /\ touched' = [ touched EXCEPT ![idx + 1] = @ \cup {"matches"} ]
    /\ mutations' = mutations + 1
    /\ Save(data')
    /\ UNCHANGED << Files, idx, codes, themes, ui >>

\* Any other event
Ignore ==
    /\ pc = "running"
    /\ lastMsg' = Call("Ignore", "", FALSE, idx)
    /\ pair' = NoPair
    /\ UNCHANGED << Files, pc, err, outFile, idx, data, codes, themes, ui,
                    mutations, saves, savesOk, lastGood, touched >>

\* The runtime calls new(), builds the first view, and then, for each batch of
\* events, passes every message of the batch to update() before it builds the
\* next view: the updates wait for the first View, and a message may be handled
\* against widgets that were built before an earlier message of its batch.
Next ==
    \/ New
    \/ View
    \/ NextRow
    \/ PrevRow
    \/ Matches
    \/ CodeToggle
    \/ ToggleMatches
    \/ Ignore

Spec == Init /\ [][Next]_vars

\* =================================================================== claims

Loaded == pc \in { "loaded", "running" } \/ (pc = "dead" /\ lastMsg.type # "New")

SaveErrors == { "Saving file: create", "Saving file: write" }

\* C1: once a non-empty entry sequence is loaded, 0 <= idx < n in every state,
\* whatever messages have been handled, so the current entry exists.
C1_IdxInRange ==
    (Loaded /\ Len(data) > 0) => (0 <= idx /\ idx < Len(data))

\* C1 witness: NextRow was handled at the last of two entries and idx is still
\* the last index.
C1_Witness ==
    /\ Len(data) = 2
    /\ lastMsg.type = "NextRow"
    /\ lastMsg.at = 1
    /\ idx = 1

\* C2: every mutating message has called save exactly once and navigation and
\* Ignore have called it never, so saves = mutations; while the process runs
\* every one of those saves has completed, and a failed save is the last one.
C2_OneSavePerMutation ==
    /\ saves = mutations
    /\ pc = "running" => savesOk = saves
    /\ (pc = "dead" /\ err \in SaveErrors) => savesOk = saves - 1
    /\ (pc = "dead" /\ err \notin SaveErrors) => (saves = 0 /\ savesOk = 0)

\* C2 witness: two mutating messages on two different entries with navigation
\* between them, and two completed saves.
C2_Witness ==
    /\ pc = "running"
    /\ Len(data) = 2
    /\ touched[1] # {}
    /\ touched[2] # {}
    /\ mutations = 2
    /\ savesOk = 2

\* The entries as they were loaded
InputData == Parse(inputFile.toks)

\* The five fields of an Entry that no message writes
SameFixedFields(a, b) ==
    /\ a.index = b.index
    /\ a.lab = b.lab
    /\ a.group = b.group
    /\ a.response = b.response
    /\ a.ratings = b.ratings

\* C3: in the output file a successful save has written, every entry that no
\* mutating message was applied to equals its input form (an absent matches is
\* still absent), and an entry that one was applied to differs from its input
\* form only in the fields those messages set.
C3_SavedFileFrame ==
    (pc = "running" /\ savesOk > 0) =>
        /\ ParseOk(outFile.toks)
        /\ Len(Parse(outFile.toks)) = Len(InputData)
        /\ \A i \in DOMAIN InputData :
              LET out == Parse(outFile.toks)[i]
                  in  == InputData[i]
              IN /\ SameFixedFields(out, in)
                 /\ "matches" \notin touched[i] => out.matches = in.matches
                 /\ "codes" \notin touched[i] => out.codes = in.codes

\* C4: an entry's matches differs from the loaded value only if a Matches or
\* ToggleMatches message has been applied to that entry; until then an absent
\* matches is absent, not false.
C4_MatchesOnlyByIntent ==
    Loaded =>
        \A i \in DOMAIN data :
            "matches" \notin touched[i] => data[i].matches = InputData[i].matches

\* What the table of intents says the entries are after a message, given the
\* entries before it
Applied(d, call) ==
    LET i == call.at + 1 IN
    CASE call.type = "Matches" ->
            [ d EXCEPT ![i].matches = {call.flag} ]
      [] call.type = "ToggleMatches" ->
            [ d EXCEPT ![i].matches = IF @ = {TRUE} THEN {FALSE} ELSE {TRUE} ]
      [] call.type = "CodeToggle" ->
            [ d EXCEPT ![i].codes = IF call.flag THEN @ \cup {call.tag}
                                                 ELSE @ \ {call.tag} ]
      [] OTHER -> d

ProperPrefix(p, s) == Len(p) < Len(s) /\ p = SubSeq(s, 1, Len(p))

\* A step in which save() was called and did not return Ok
FailedSaveStep == saves' = saves + 1 /\ savesOk' = savesOk

\* C5 as stated: when the save of a mutating message fails, at creating the
\* file or at writing it, the mutation stays in memory, the process is dead and
\* takes no further step, and the output file holds what the last successful
\* save wrote.
C5_FailedSaveKeepsFile ==
    [][ /\ pc # "dead"
        /\ FailedSaveStep =>
              /\ data' = Applied(data, lastMsg')
              /\ pc' = "dead"
              /\ outFile' = lastGood' ]_vars

\* C5 amended: as above, except that the output file holds what the last
\* successful save wrote only when the failure is at creating the file; when a
\* write fails the file has been truncated and holds a proper prefix of the
\* new text.
C5_FailedSave ==
    [][ /\ pc # "dead"
        /\ FailedSaveStep =>
              /\ data' = Applied(data, lastMsg')
              /\ pc' = "dead"
              /\ err' \in SaveErrors
              /\ err' = "Saving file: create" =>
                    (outFile' = outFile /\ outFile' = lastGood')
              /\ err' = "Saving file: write" =>
                    /\ outFile'.exists
                    /\ \E text \in Serialize(data') :
                          ProperPrefix(outFile'.toks, text) ]_vars

\* C5 witness: after one successful save, a Matches message whose save failed
\* while writing: the entry holds the new value and the file is no longer what
\* the successful save wrote.
C5_Witness ==
    /\ pc = "dead"
    /\ err = "Saving file: write"
    /\ savesOk = 1
    /\ saves = 2
    /\ lastMsg.type = "Matches"
    /\ data[lastMsg.at + 1].matches = {lastMsg.flag}
    /\ outFile # lastGood

\* C6 as stated: CodeToggle(t, true) directly followed by CodeToggle(t, false)
\* on the same entry leaves its code set as it was before both, whether or
\* not t was in it.
C6_CodeRoundTrip ==
    (pair.kind = "code" /\ pair.done) =>
        data[pair.at + 1].codes = pair.before.codes

\* C6 amended: the code set is as before both messages when t was not in it;
\* when t was in it, the set afterwards is the former set without t.
C6_CodeRoundTripAbsentTag ==
    (pair.kind = "code" /\ pair.done) =>
        data[pair.at + 1].codes = pair.before.codes \ {pair.tag}

\* C6 witness: the two messages were handled for a tag the entry did not have.
C6_Witness ==
    /\ pair.kind = "code"
    /\ pair.done
    /\ pair.tag \notin pair.before.codes
    /\ lastMsg.type = "CodeToggle"
    /\ ~lastMsg.flag

\* C7: ToggleMatches maps absent and false to true and true to false; a second
\* ToggleMatches on the same entry restores a value that was not absent; the
\* result is never absent.
C7_ToggleMatches ==
    pair.kind = "matches" =>
        LET was == pair.before.matches
            now == data[pair.at + 1].matches
        IN /\ now # None
           /\ ~pair.done => now = (IF was = Some(TRUE) THEN Some(FALSE) ELSE Some(TRUE))
           /\ (pair.done /\ was # None) => now = was

\* C7 witness: ToggleMatches was handled twice in a row on an entry whose
\* matches was true.
C7_Witness ==
    /\ pair.kind = "matches"
    /\ pair.done
    /\ pair.before.matches = Some(TRUE)
    /\ lastMsg.type = "ToggleMatches"

\* C8: NextRow leaves idx at the smaller of idx + 1 and n - 1 and PrevRow at
\* the larger of idx - 1 and 0: no wraparound, and no move at either end.
C8_Clamped ==
    /\ lastMsg.type = "NextRow" =>
          idx = (IF lastMsg.at + 1 <= Len(data) - 1 THEN lastMsg.at + 1 ELSE Len(data) - 1)
    /\ lastMsg.type = "PrevRow" =>
          idx = (IF lastMsg.at - 1 >= 0 THEN lastMsg.at - 1 ELSE 0)

\* C8 witness: NextRow was handled at the last entry of at least two.
C8_Witness ==
    /\ Len(data) >= 2
    /\ lastMsg.type = "NextRow"
    /\ lastMsg.at = Len(data) - 1
    /\ idx = Len(data) - 1

\* C9: when a save has succeeded, the output file is one well-formed array
\* that parses to exactly the entries in memory, all of them in order and
\* nothing else.
C9_FullSnapshot ==
    (pc = "running" /\ lastMsg.type \in Mutating) =>
        /\ outFile.exists
        /\ ParseOk(outFile.toks)
        /\ Len(outFile.toks) = Len(data) + 2
        /\ Parse(outFile.toks) = data

\* C9 witness: the second successful save, with two entries in memory.
C9_Witness ==
    /\ pc = "running"
    /\ lastMsg.type \in Mutating
    /\ savesOk = 2
    /\ Len(data) = 2

\* One of the startup conditions fails
BadStartup ==
    \/ argc # 4
    \/ ~inputFile.exists
    \/ ~ParseOk(inputFile.toks)
    \/ ~codeFile.exists

\* C10: with a wrong argument count, an entries file that does not open or
\* parse, or a codes file that does not open, the process ends inside new():
\* nothing is loaded, no message is handled and the output file is as it was.
C10_StartupAllOrNothing ==
    BadStartup =>
        /\ pc \in { "start", "dead" }
        /\ lastMsg.type \in { "Init", "New" }
        /\ data = << >>
        /\ codes = << >>
        /\ mutations = 0
        /\ saves = 0
        /\ outFile \in OutFiles
        /\ outFile = lastGood

\* C10 witness: new() ended because the codes file did not open, the last of
\* its checks, after the entries file had parsed.
C10_Witness ==
    /\ pc = "dead"
    /\ lastMsg.type = "New"
    /\ argc = 4
    /\ inputFile.exists
    /\ ParseOk(inputFile.toks)
    /\ Len(inputFile.toks) > 2
    /\ ~codeFile.exists

\* C11: every text save can write for the entries in memory loads again, and
\* loads as a sequence of the same length whose entries have the same index,
\* lab, group, response, ratings, matches (absent, false and true each stay
\* what they are) and code set.
C11_SaveLoadRoundTrip ==
    Loaded =>
        \A text \in Serialize(data) :
            /\ ParseOk(text)
            /\ Len(Parse(text)) = Len(data)
            /\ \A i \in DOMAIN data :
                  LET back == Parse(text)[i] IN
                  /\ SameFixedFields(back, data[i])
                  /\ back.matches = data[i].matches
                  /\ back.codes = data[i].codes

\* C11 witness: entries in memory with an absent and a true matches and with a
\* code set of two tags, which has two orders to be written in.
C11_Witness ==
    /\ pc = "running"
    /\ \E i \in DOMAIN data : data[i].matches = None
    /\ \E i \in DOMAIN data : data[i].matches = Some(TRUE)
    /\ \E i \in DOMAIN data : Cardinality(data[i].codes) = 2
    /\ Cardinality(Serialize(data)) > 1

\* The positions of the rows of the codes file that have the three cells
GoodRows == { i \in DOMAIN codeFile.rows : Len(codeFile.rows[i]) = 3 }

\* The k-th smallest element of a set of numbers
Nth(S, k) == CHOOSE i \in S : Cardinality({ j \in S : j <= i }) = k

\* C12: a malformed row never ends the load: when the arguments and the two
\* files are there, new() returns, and the loaded Codes are exactly the rows
\* that decode, in file order, the malformed rows left out without an error.
C12_MalformedRowsDropped ==
    /\ (pc # "start" /\ ~BadStartup) => (Loaded /\ (lastMsg.type = "New" => err = ""))
    /\ Loaded =>
          /\ Len(codes) = Cardinality(GoodRows)
          /\ \A k \in 1..Len(codes) :
                LET row == codeFile.rows[Nth(GoodRows, k)] IN
                /\ codes[k].theme = row[1]
                /\ codes[k].tag = row[2]
                /\ codes[k].code = row[3]

\* C12 witness: a codes file was loaded that has a malformed row between two
\* well-formed ones.
C12_Witness ==
    /\ pc = "loaded"
    /\ Len(codes) >= 2
    /\ \E i, j, k \in DOMAIN codeFile.rows :
          /\ i < j /\ j < k
          /\ i \in GoodRows /\ j \notin GoodRows /\ k \in GoodRows

\* a comes before b in lexicographic order: at the first place where they
\* differ a has the smaller character, or a ends there and b goes on
LexBefore(a, b) ==
    \E k \in 0..Min(Len(a), Len(b)) :
        /\ \A j \in 1..k : a[j] = b[j]
        /\ \/ (k = Len(a) /\ k < Len(b))
           \/ (k < Len(a) /\ k < Len(b) /\ a[k + 1] < b[k + 1])

\* C13: after the load, themes holds exactly the theme values of the loaded
\* Codes, each once, in ascending lexicographic order.
C13_ThemesSortedDistinct ==
    Loaded =>
        /\ Range(themes) = { codes[k].theme : k \in DOMAIN codes }
        /\ \A i, j \in DOMAIN themes : i < j => LexBefore(themes[i], themes[j])

\* C13 witness: the loaded Codes name their themes out of order and one theme
\* twice, on rows that do not follow each other.
C13_Witness ==
    /\ pc = "loaded"
    /\ Len(themes) >= 5
    /\ Len(codes) > Len(themes)
    /\ \E i, j \in DOMAIN codes : i < j /\ LexBefore(codes[j].theme, codes[i].theme)
    /\ \E i, j \in DOMAIN codes :
          i + 1 < j /\ codes[i].theme = codes[j].theme /\ codes[i + 1].theme # codes[i].theme

\* C14: whatever messages and renders there have been, the entries in memory
\* are as many as were loaded, in the same order, each with its loaded index,
\* lab, group, response and ratings.
C14_FixedFieldsKept ==
    Loaded =>
        /\ Len(data) = Len(InputData)
        /\ \A i \in DOMAIN data : SameFixedFields(data[i], InputData[i])

\* C14 witness: both of two entries have been rendered and written to by a
\* message, the first one having ratings.
C14_Witness ==
    /\ pc = "running"
    /\ Len(data) = 2
    /\ data[1].ratings # << >>
    /\ \A i \in DOMAIN data : touched[i] # {} /\ data[i].matches # None
    /\ data[2].matches # InputData[2].matches
    /\ lastMsg.type = "View"

\* C15: a CodeToggle(tag, present) step leaves idx and every other entry as
\* they were and changes nothing of the current entry but its code set; in
\* that set tag is a member afterwards iff present, and every other tag is a
\* member iff it was; a second, equal CodeToggle right after the first changes
\* nothing more.
C15_SetCodeFrame ==
    [][ lastMsg'.type = "CodeToggle" =>
          LET i == idx + 1
              t == lastMsg'.tag
          IN /\ lastMsg'.at = idx
             /\ idx' = idx
             /\ (t \in data'[i].codes) <=> lastMsg'.flag
             /\ data'[i].codes \ {t} = data[i].codes \ {t}
             /\ data'[i].matches = data[i].matches
             /\ SameFixedFields(data'[i], data[i])
             /\ Len(data') = Len(data)
             /\ \A j \in DOMAIN data \ {i} : data'[j] = data[j]
             /\ lastMsg = lastMsg' => data' = data ]_vars

\* C15 witness: CodeToggle has added a tag to the second of two entries, which
\* had another tag, while the first entry has a code of its own.
C15_Witness ==
    /\ Len(data) = 2
    /\ lastMsg.type = "CodeToggle"
    /\ lastMsg.flag
    /\ lastMsg.at = 1
    /\ data[2].codes = InputData[2].codes \cup {lastMsg.tag}
    /\ lastMsg.tag \notin InputData[2].codes
    /\ InputData[2].codes # {}
    /\ data[1].codes # {}

\* C16: whatever the number of themes, the widgets of a render hold a checkbox
\* for every loaded Code, under the Code's theme, sending the Code's tag.
C16_EveryCodeOffered ==
    (pc = "running" /\ lastMsg.type = "View") =>
        \A k \in DOMAIN codes :
            \E box \in ui.boxes :
                /\ box.theme = codes[k].theme
                /\ box.tag = codes[k].tag
                /\ box.label = codes[k].code

\* The tags of the loaded vocabulary
VocabTags == { codes[k].tag : k \in DOMAIN codes }

\* C17 as stated: in every state from the load on, every tag in every entry's
\* code set is a tag of the loaded vocabulary.
C17_TagsInVocabulary ==
    Loaded => \A i \in DOMAIN data : data[i].codes \subseteq VocabTags

\* C17, amended: in every state from the load on, every tag in an entry's code
\* set is a tag of the loaded vocabulary or was in that entry's code set in the
\* entries file; the program itself only ever adds vocabulary tags.
C17_TagsInVocabularyOrInput ==
    Loaded =>
        /\ Len(data) = Len(InputData)
        /\ \A i \in DOMAIN data :
               data[i].codes \subseteq (VocabTags \cup InputData[i].codes)

\* an entry loaded with a tag outside the vocabulary has been given a
\* vocabulary tag by a code checkbox and keeps both
C17_Witness ==
    /\ pc = "running"
    /\ lastMsg.type = "CodeToggle"
    /\ lastMsg.flag
    /\ \E i \in DOMAIN data :
           /\ InputData[i].codes \ VocabTags # {}
           /\ InputData[i].codes \subseteq data[i].codes
           /\ lastMsg.tag \in data[i].codes \ InputData[i].codes
           /\ lastMsg.tag \in VocabTags

====
